---- MODULE Spec2Model ----
(***************************************************************************)
(* tmenu (src/src/main.rs): a terminal application launcher.               *)
(*                                                                         *)
(* main() puts the terminal in raw / alternate-screen mode, runs the       *)
(* interactive loop run_app() and restores the terminal.  Each iteration   *)
(* of the loop rescans /usr/share/applications into Tmenu.app_list, draws  *)
(* the user interface, reads one event and dispatches it on the input      *)
(* mode.                                                                   *)
(*                                                                         *)
(* Strings (the input box, the committed search string, entry names) are   *)
(* sequences of one-character strings.  Tmenu.index is a usize: the model  *)
(* represents usize::MAX by UsizeMax and wraps the two arithmetic          *)
(* operations the code performs on the index (+1 and -1) the way the       *)
(* build does: a panic with overflow checks (debug), a wrap without        *)
(* (release); which build runs is a choice of the model.                   *)
(***************************************************************************)
EXTENDS Integers, Sequences, FiniteSets, TLC

(* ---------------------------- bounds ---------------------------------- *)

\* Largest number of files in the shortcut directory.
MaxFiles == 2

\* Largest length of the input box the user types.
MaxInput == 1

\* Largest number of steps the cursor is taken down from usize::MAX.
MaxDescent == 0

\* The longest list on which next() and previous() are called by themselves.
MaxLen == 6

(* ----------------------- program constants ---------------------------- *)

\* usize::MAX, the value 0usize - 1 wraps to.  The model checker's integers
\* are narrower than usize; the model only needs a value above every list
\* length, reached from 0 by -1 and leading to 0 by +1.
UsizeMax == 2147483647

\* Result of an operation that panicked instead of returning.
Panic == -1

(* ------------------------- the environment ---------------------------- *)

\* The character keys the model presses: the four bound in Normal mode.
Chars == {"i", "q", "j", "k"}

\* The character keys the model presses while Editing, where every
\* character takes the same arm (line 139).
EditChars == {"q", "k"}

\* Paths that may exist in /usr/share/applications.
Files == {"f1", "f2", "f3", "f4", "f5", "f6", "f7", "f8"}

\* What the file system and freedesktop_entry_parser give for each path:
\*   readable  the directory entry is Ok (file.unwrap() succeeds)
\*   desktop   the path ends with ".desktop"
\*   parses    parse_entry returns Ok
\*   has_name  section "Desktop Entry" has attribute Name
\*   name      the value of Name
\*   has_exec  the section has attribute Exec
\*   nodisplay the section has NoDisplay = true
FileAttr ==
  [f \in Files |->
     CASE f = "f1" -> [readable |-> TRUE, desktop |-> TRUE, parses |-> TRUE,
                       has_name |-> TRUE, name |-> <<"K", "i">>,
                       has_exec |-> TRUE, nodisplay |-> FALSE]
       [] f = "f2" -> [readable |-> TRUE, desktop |-> TRUE, parses |-> TRUE,
                       has_name |-> TRUE, name |-> <<"K", "i">>,
                       has_exec |-> TRUE, nodisplay |-> FALSE]
       [] f = "f3" -> [readable |-> TRUE, desktop |-> TRUE, parses |-> TRUE,
                       has_name |-> TRUE, name |-> <<"q">>,
                       has_exec |-> FALSE, nodisplay |-> FALSE]
       [] f = "f4" -> [readable |-> TRUE, desktop |-> TRUE, parses |-> TRUE,
                       has_name |-> TRUE, name |-> <<"j">>,
                       has_exec |-> TRUE, nodisplay |-> TRUE]
       [] f = "f5" -> [readable |-> TRUE, desktop |-> FALSE, parses |-> TRUE,
                       has_name |-> TRUE, name |-> <<"k">>,
                       has_exec |-> TRUE, nodisplay |-> FALSE]
       [] f = "f6" -> [readable |-> TRUE, desktop |-> TRUE, parses |-> FALSE,
                       has_name |-> FALSE, name |-> <<>>,
                       has_exec |-> FALSE, nodisplay |-> FALSE]
       [] f = "f7" -> [readable |-> TRUE, desktop |-> TRUE, parses |-> TRUE,
                       has_name |-> FALSE, name |-> <<>>,
                       has_exec |-> TRUE, nodisplay |-> FALSE]
       [] f = "f8" -> [readable |-> FALSE, desktop |-> TRUE, parses |-> FALSE,
                       has_name |-> FALSE, name |-> <<>>,
                       has_exec |-> FALSE, nodisplay |-> FALSE]]

\* Sequences of distinct paths of length at most n: the listings read_dir
\* can yield.
Listings(n) ==
  UNION { { s \in [1..k -> Files] : \A i, j \in 1..k : s[i] = s[j] => i = j }
          : k \in 0..n }

\* What fs::read_dir can find: the directory listable or not, and its
\* entries in the order read_dir yields them.
Dirs ==
  [listable : BOOLEAN, files : Listings(MaxFiles)]

\* s without element number p.
RemoveAt(s, p) ==
  SubSeq(s, 1, p - 1) \o SubSeq(s, p + 1, Len(s))

\* The directories one file-system operation makes of d: a file created,
\* a file removed, the permission to list the directory given or taken.
\* A created file is listed last; every order of a listing is the result
\* of creating its files in that order.
DirsAfterChange(d) ==
  { [d EXCEPT !.files = Append(d.files, f)] :
      f \in { g \in Files : /\ Len(d.files) < MaxFiles
                            /\ \A i \in 1..Len(d.files) : d.files[i] # g } }
    \cup { [d EXCEPT !.files = RemoveAt(d.files, p)] : p \in 1..Len(d.files) }
    \cup { [d EXCEPT !.listable = ~d.listable] }

\* crossterm events: key events with a KeyCode, and the others.
Key(code) == [kind |-> "Key", code |-> code, ch |-> ""]

Char(c) == [kind |-> "Key", code |-> "Char", ch |-> c]

NoEvent == [kind |-> "None", code |-> "", ch |-> ""]

Events ==
  { Char(c) : c \in Chars }
    \cup { Key(k) : k \in {"Up", "Down", "Enter", "Backspace", "Esc"} }
    \cup { [kind |-> "Mouse", code |-> "", ch |-> ""],
           [kind |-> "Resize", code |-> "", ch |-> ""] }

(* ---------------------------- the state ------------------------------- *)

VARIABLES
  pc,              \* position of the single thread of control
  raw_mode,        \* terminal raw mode engaged
  alt_screen,      \* alternate screen and mouse capture engaged
  restores,        \* number of completed disable_raw_mode() calls
  dir,             \* /usr/share/applications, as the last scan found it
  input,           \* Tmenu.input
  input_mode,      \* Tmenu.input_mode
  search_string,   \* Tmenu.search_string
  app_list,        \* Tmenu.app_list; src is the path the entry was read from
  index,           \* Tmenu.index
  ev,              \* the event read and not yet dispatched
  res,             \* what run_app returned: "none", "Ok" or the io::Error
  drawn,           \* what the last terminal.draw handed to ui
  reported,        \* what the process printed before it ended
  exit,            \* "running", or how the process ended
  nav              \* a Tmenu under repeated next() or previous() calls

vars ==
  << pc, raw_mode, alt_screen, restores, dir, input, input_mode, search_string, app_list, index, ev, res, drawn,
     reported, exit, nav >>

term == << raw_mode, alt_screen, restores >>

tmenu == << input, input_mode, search_string, app_list, index >>

\* Names of the entries of a list, in order.
Names(list) == [i \in 1..Len(list) |-> list[i].name]

\* No Tmenu is under repeated calls: the program itself is running.
NoNav == [op |-> "none"]

NotDrawn == [valid |-> FALSE, items |-> <<>>, selected |-> 0,
             mode |-> "Normal", input |-> <<>>]

\* ui that leaves the selection of the List widget at its default.
ui_without_selection(list, idx, mode, inp) ==
  [valid |-> TRUE, items |-> Names(list), selected |-> 0, mode |-> mode,
   input |-> inp]

\* ui (lines 155-270): the frame it builds of the application state: the
\* help line of the mode and the input box (lines 169-244), one list item
\* per entry of app_list (lines 246-254), app.index selected (lines
\* 256-257).
ui(list, idx, mode, inp) ==
  [valid |-> TRUE, items |-> Names(list), selected |-> idx, mode |-> mode,
   input |-> inp]

(* --------------------------- Tmenu ------------------------------------ *)

\* Tmenu::next without the wrap: the cursor stays on the last entry.
next_saturating(idx, len, checks) ==
  IF idx = UsizeMax
    THEN IF checks \/ len = 0 THEN Panic ELSE 0 % len
    ELSE IF len = 0 THEN Panic
    ELSE IF idx + 1 >= len THEN idx ELSE idx + 1

\* Tmenu::next: self.index = (self.index + 1) % self.app_list.len().
\* The remainder by zero panics in every build; index + 1 overflows at
\* usize::MAX, a panic with overflow checks and a wrap to 0 without.
next(idx, len, checks) ==
  IF idx = UsizeMax
    THEN IF checks \/ len = 0 THEN Panic ELSE 0 % len
    ELSE IF len = 0 THEN Panic ELSE (idx + 1) % len

\* Tmenu::previous without the wrap: the cursor stays on the first entry.
previous_saturating(idx, len, checks) ==
  IF idx > 0 THEN idx - 1
  ELSE IF len = 0 THEN (IF checks THEN Panic ELSE UsizeMax)
  ELSE 0

\* Tmenu::previous: index - 1 when index > 0, else app_list.len() - 1,
\* which underflows on an empty list: a panic with overflow checks, a wrap
\* to usize::MAX without.
previous(idx, len, checks) ==
  IF idx > 0 THEN idx - 1
  ELSE IF len = 0 THEN (IF checks THEN Panic ELSE UsizeMax)
  ELSE len - 1

(* ----------------------- the directory scan --------------------------- *)

\* The push without the search for an entry of the same name.
push_always(list, name, f) ==
  Append(list, [name |-> name, src |-> f])

\* Lines 101-105: push an AppItem with this name unless one is in the list.
push_if_absent(list, name, f) ==
  IF \A i \in 1..Len(list) : list[i].name # name
    THEN Append(list, [name |-> name, src |-> f])
    ELSE list

\* Lines 92-107, the for loop over the entries read_dir yields.
RECURSIVE scan_files(_, _)
scan_files(list, files) ==
  IF files = <<>> THEN [app_list |-> list, outcome |-> "done"]
  ELSE LET f == Head(files)
           a == FileAttr[f]
       IN  IF ~a.readable THEN [app_list |-> list, outcome |-> "panic"]
           ELSE IF ~a.desktop THEN scan_files(list, Tail(files))
           ELSE IF ~a.parses THEN [app_list |-> list, outcome |-> "err"]
           ELSE IF ~a.has_name THEN [app_list |-> list, outcome |-> "panic"]
           ELSE scan_files(push_if_absent(list, a.name, f), Tail(files))

\* The scan onto a list built afresh at each iteration.
scan_afresh(list, d) ==
  IF ~d.listable THEN [app_list |-> <<>>, outcome |-> "panic"]
  ELSE scan_files(<<>>, d.files)

\* Lines 92-107: read_dir(..).unwrap() panics on a directory that cannot be
\* listed; otherwise the loop over its entries.
scan(list, d) ==
  IF ~d.listable THEN [app_list |-> list, outcome |-> "panic"]
  ELSE scan_files(list, d.files)

(* ----------------------- the key dispatch ----------------------------- *)

\* The quit key taken in either mode.
quits_in_any_mode(mode, e) ==
  e = Char("q")

\* Lines 117-119: the event that makes run_app return Ok(()).
quits(mode, e) ==
  mode = "Normal" /\ e = Char("q")

\* The input mode when Enter also leaves Editing.
mode_after_enter_leaves(mode, e) ==
  IF mode = "Normal" /\ e = Char("i") THEN "Editing"
  ELSE IF mode = "Editing" /\ e \in {Key("Esc"), Key("Enter")} THEN "Normal"
  ELSE mode

\* Lines 114-116 and 145-147: the input mode after an event.
mode_after(mode, e) ==
  IF mode = "Normal" /\ e = Char("i") THEN "Editing"
  ELSE IF mode = "Editing" /\ e = Key("Esc") THEN "Normal"
  ELSE mode

\* The cursor when the navigation keys are taken in either mode.
index_after_in_any_mode(mode, e, idx, len, checks) ==
  IF e \in {Char("k"), Key("Up")}
    THEN previous(idx, len, checks)
  ELSE IF e \in {Char("j"), Key("Down")}
    THEN next(idx, len, checks)
  ELSE idx

\* Lines 120-131: the cursor after an event (Panic when the call panics).
index_after(mode, e, idx, len, checks) ==
  IF mode = "Normal" /\ e \in {Char("k"), Key("Up")}
    THEN previous(idx, len, checks)
  ELSE IF mode = "Normal" /\ e \in {Char("j"), Key("Down")}
    THEN next(idx, len, checks)
  ELSE idx

\* The input box when Backspace pops nothing.
input_after_without_pop(mode, e, inp) ==
  IF mode = "Editing" /\ e.kind = "Key" /\ e.code = "Char"
    THEN Append(inp, e.ch)
  ELSE inp

\* Lines 139-144: the input box after an event; String::pop on an empty
\* string returns None and changes nothing.
input_after(mode, e, inp) ==
  IF mode = "Editing" /\ e.kind = "Key" /\ e.code = "Char"
    THEN Append(inp, e.ch)
  ELSE IF mode = "Editing" /\ e = Key("Backspace")
    THEN (IF inp = <<>> THEN inp ELSE SubSeq(inp, 1, Len(inp) - 1))
  ELSE inp

\* The commit that pushes the input after the query already committed.
search_after_appends(mode, e, inp, search) ==
  IF mode = "Editing" /\ e = Key("Enter") THEN search \o inp ELSE search

\* Lines 135-138: the committed search string after an event.
search_after(mode, e, inp, search) ==
  IF mode = "Editing" /\ e = Key("Enter") THEN inp ELSE search

(* ------------------------------ Init ---------------------------------- *)

Init ==
  /\ pc = "enable_raw"
  /\ raw_mode = FALSE
  /\ alt_screen = FALSE
  /\ restores = 0
  /\ dir \in Dirs
  /\ input = <<>>
  /\ input_mode = "Normal"
  /\ search_string = <<>>
  /\ app_list = <<>>
  /\ index = 0
  /\ ev = NoEvent
  /\ res = "none"
  /\ drawn = NotDrawn
  /\ reported = "nothing"
  /\ exit = "running"
  /\ nav = NoNav

(* ------------------------------ main ---------------------------------- *)

\* main returns Err from a `?`: the process ends, nothing is restored.
MainFails ==
  /\ pc' = "exited"
  /\ exit' = "Err"
  /\ reported' = "main error"

\* Line 64: enable_raw_mode()?
EnableRawMode ==
  /\ pc = "enable_raw"
  /\ \E ok \in BOOLEAN :
       IF ok
         THEN /\ raw_mode' = TRUE
              /\ pc' = "enter_alt"
              /\ UNCHANGED << exit, reported >>
         ELSE /\ MainFails
              /\ UNCHANGED raw_mode
  /\ UNCHANGED << alt_screen, restores, dir, tmenu, ev, res, drawn, nav >>

\* Line 66: execute!(stdout, EnterAlternateScreen, EnableMouseCapture)?
EnterAlternateScreen ==
  /\ pc = "enter_alt"
  /\ \E ok \in BOOLEAN :
       IF ok
         THEN /\ alt_screen' = TRUE
              /\ pc' = "new_terminal"
              /\ UNCHANGED << exit, reported >>
         ELSE /\ MainFails
              /\ UNCHANGED alt_screen
  /\ UNCHANGED << raw_mode, restores, dir, tmenu, ev, res, drawn, nav >>

\* Lines 67-72: Terminal::new(backend)?, Tmenu::default(), run_app is entered.
NewTerminal ==
  /\ pc = "new_terminal"
  /\ \E ok \in BOOLEAN :
       IF ok
         THEN /\ pc' = "scan"
              /\ UNCHANGED << exit, reported >>
         ELSE MainFails
  /\ UNCHANGED << term, dir, tmenu, ev, res, drawn, nav >>

\* Line 75: disable_raw_mode()?
DisableRawMode ==
  /\ pc = "disable_raw"
  /\ \E ok \in BOOLEAN :
       IF ok
         THEN /\ raw_mode' = FALSE
              /\ restores' = restores + 1
              /\ pc' = "leave_alt"
              /\ UNCHANGED << exit, reported >>
         ELSE /\ MainFails
              /\ UNCHANGED << raw_mode, restores >>
  /\ UNCHANGED << alt_screen, dir, tmenu, ev, res, drawn, nav >>

\* Lines 76-80: execute!(.., LeaveAlternateScreen, DisableMouseCapture)?
LeaveAlternateScreen ==
  /\ pc = "leave_alt"
  /\ \E ok \in BOOLEAN :
       IF ok
         THEN /\ alt_screen' = FALSE
              /\ pc' = "show_cursor"
              /\ UNCHANGED << exit, reported >>
         ELSE /\ MainFails
              /\ UNCHANGED alt_screen
  /\ UNCHANGED << raw_mode, restores, dir, tmenu, ev, res, drawn, nav >>

\* Line 81: terminal.show_cursor()?
ShowCursor ==
  /\ pc = "show_cursor"
  /\ \E ok \in BOOLEAN :
       IF ok
         THEN /\ pc' = "report"
              /\ UNCHANGED << exit, reported >>
         ELSE MainFails
  /\ UNCHANGED << term, dir, tmenu, ev, res, drawn, nav >>

\* Lines 83-87: print run_app's error if any, and return Ok(()).
Report ==
  /\ pc = "report"
  /\ reported' = IF res # "Ok" THEN "run_app error" ELSE "nothing"
  /\ pc' = "exited"
  /\ exit' = "Ok"
  /\ UNCHANGED << term, dir, tmenu, ev, res, drawn, nav >>

(* ----------------------------- run_app -------------------------------- *)

\* run_app owns app (line 90, `mut app: Tmenu` by value): leaving run_app,
\* by return or by unwinding, drops it.
DropApp ==
  /\ input' = <<>>
  /\ input_mode' = "Normal"
  /\ search_string' = <<>>
  /\ app_list' = <<>>
  /\ index' = 0

\* A panic inside run_app: no hook is registered and nothing catches the
\* unwind, so the default hook prints the message and the process ends
\* with the terminal as it is.
Panics ==
  /\ pc' = "exited"
  /\ exit' = "panic"
  /\ reported' = "panic message"
  /\ UNCHANGED res
  /\ DropApp

\* run_app returns r to main (line 72), which goes on to restore.
Returns(r) ==
  /\ pc' = "disable_raw"
  /\ res' = r
  /\ UNCHANGED << exit, reported >>
  /\ DropApp

\* Lines 92-109, the part of an iteration before the event is read: the
\* rescan of the directory, then terminal.draw(|f| ui(f, &app))?.  ui
\* (lines 155-270) hands the whole app_list to the List widget (lines
\* 246-254) and selects app.index (lines 256-257).  Since the scan before,
\* for as long as the loop blocked in event::read, other processes have
\* left the directory alone or changed it; the model takes one change at a
\* time, and takes the failure of the draw, which does not depend on the
\* directory, in the iterations that find the directory as it was.
ScanDraw ==
  /\ pc = "scan"
  /\ \E d \in {dir} \cup DirsAfterChange(dir) :
       /\ dir' = d
       /\ LET r == scan(app_list, d)
          IN  CASE r.outcome = "done" ->
                     \E ok \in (IF d = dir THEN BOOLEAN ELSE {TRUE}) :
                       IF ok
                         THEN /\ app_list' = r.app_list
                              /\ drawn' = ui(r.app_list, index, input_mode,
                                             input)
                              /\ pc' = "read"
                              /\ UNCHANGED << input, input_mode, search_string,
                                              index, res, exit, reported >>
                         ELSE /\ Returns("DrawError")
                              /\ UNCHANGED drawn
                [] r.outcome = "err" ->
                     /\ Returns("ParseError")
                     /\ UNCHANGED drawn
                [] r.outcome = "panic" ->
                     /\ Panics
                     /\ UNCHANGED drawn
  /\ UNCHANGED << term, ev, nav >>

\* Line 111: event::read()?
ReadEvent ==
  /\ pc = "read"
  /\ \/ /\ \E e \in Events :
             /\ (input_mode = "Editing" /\ e.kind = "Key" /\ e.code = "Char")
                  => (e.ch \in EditChars /\ Len(input) < MaxInput)
             /\ (input_mode = "Normal" /\ e \in {Char("k"), Key("Up")}
                   /\ index > Len(app_list))
                  => index > UsizeMax - MaxDescent
             /\ ev' = e
        /\ pc' = "dispatch"
        /\ UNCHANGED << tmenu, res, exit, reported >>
     \/ /\ Returns("ReadError")
        /\ UNCHANGED ev
  /\ UNCHANGED << term, dir, drawn, nav >>

\* The builds a run with this cursor can be a run of: with overflow checks
\* (TRUE, the debug profile) or without (FALSE, the release profile).  The
\* cursor leaves the range of the list only by the wrap of previous(), so
\* a cursor at the top of usize tells a build without checks; until that
\* wrap the two builds have behaved alike, and after it the list is empty
\* or the cursor is out of range until next() wraps it to 0 over a
\* non-empty list, so that no run takes the choice twice.
Builds(idx) ==
  IF idx >= UsizeMax - MaxDescent THEN {FALSE} ELSE BOOLEAN

\* Lines 111-151: the match on the input mode and the key code.
Dispatch ==
  /\ pc = "dispatch"
  /\ ev' = NoEvent
  /\ IF quits(input_mode, ev)
       THEN Returns("Ok")
       ELSE \E checks \in Builds(index) :
              LET i == index_after(input_mode, ev, index, Len(app_list),
                                   checks)
              IN  IF i = Panic
                    THEN Panics
                    ELSE /\ index' = i
                         /\ input_mode' = mode_after(input_mode, ev)
                         /\ input' = input_after(input_mode, ev, input)
                         /\ search_string' =
                              search_after(input_mode, ev, input,
                                           search_string)
                         /\ pc' = "scan"
                         /\ UNCHANGED << app_list, res, exit, reported >>
  /\ UNCHANGED << term, dir, drawn, nav >>

Next ==
  \/ EnableRawMode
  \/ EnterAlternateScreen
  \/ NewTerminal
  \/ ScanDraw
  \/ ReadEvent
  \/ Dispatch
  \/ DisableRawMode
  \/ LeaveAlternateScreen
  \/ ShowCursor
  \/ Report

Spec == Init /\ [][Next]_vars

(* --------------- Tmenu::next and Tmenu::previous alone ----------------- *)

\* A Tmenu with a list of nav.len entries and the cursor on nav.start, on
\* which one of the two methods is then called nav.len times; the program
\* itself stays where main begins.
InitNav ==
  /\ pc = "enable_raw"
  /\ raw_mode = FALSE
  /\ alt_screen = FALSE
  /\ restores = 0
  /\ dir = [listable |-> TRUE, files |-> <<>>]
  /\ input = <<>>
  /\ input_mode = "Normal"
  /\ search_string = <<>>
  /\ app_list = <<>>
  /\ index = 0
  /\ ev = NoEvent
  /\ res = "none"
  /\ drawn = NotDrawn
  /\ reported = "nothing"
  /\ exit = "running"
  /\ \E len \in 1..MaxLen, op \in {"next", "previous"} :
       \E start \in 0..(len - 1) :
         nav = [len |-> len, start |-> start, index |-> start, calls |-> 0,
                op |-> op]

\* One call of app.next() (lines 50-52) in either build.
CallNext ==
  /\ nav.op = "next"
  /\ nav.calls < nav.len
  /\ \E checks \in BOOLEAN :
       nav' = [nav EXCEPT !.index = next(nav.index, nav.len, checks),
                          !.calls = @ + 1]
  /\ UNCHANGED << pc, term, dir, tmenu, ev, res, drawn, reported, exit >>

\* One call of app.previous() (lines 53-59) in either build.
CallPrevious ==
  /\ nav.op = "previous"
  /\ nav.calls < nav.len
  /\ \E checks \in BOOLEAN :
       nav' = [nav EXCEPT !.index = previous(nav.index, nav.len, checks),
                          !.calls = @ + 1]
  /\ UNCHANGED << pc, term, dir, tmenu, ev, res, drawn, reported, exit >>

NextNav ==
  \/ CallNext
  \/ CallPrevious

SpecNav == InitNav /\ [][NextNav]_vars

TypeOK ==
  /\ pc \in {"enable_raw", "enter_alt", "new_terminal", "scan", "read",
             "dispatch", "disable_raw", "leave_alt", "show_cursor", "report",
             "exited"}
  /\ raw_mode \in BOOLEAN
  /\ alt_screen \in BOOLEAN
  /\ restores \in 0..1
  /\ dir \in Dirs
  /\ input_mode \in {"Normal", "Editing"}
  /\ index \in Nat
  /\ ev \in Events \cup {NoEvent}
  /\ res \in {"none", "Ok", "ParseError", "DrawError", "ReadError"}
  /\ exit \in {"running", "Ok", "Err", "panic"}
  /\ nav = NoNav

(* ======================= properties ==================================== *)

\* The positions inside run_app's loop.
InLoop(p) == p \in {"scan", "read", "dispatch"}

NextKeys == {Char("j"), Key("Down")}

PreviousKeys == {Char("k"), Key("Up")}

\* C1: on every exit path of the process the terminal's raw /
\* alternate-screen mode has been released, exactly once, and is not left
\* engaged.  (Violated: a panic in the loop and a failed step of main end
\* the process with the mode engaged.)
C1_TerminalReleasedOnEveryExit ==
  pc = "exited" =>
    /\ ~raw_mode
    /\ ~alt_screen
    /\ restores <= 1
    /\ exit \in {"Ok", "panic"} => restores = 1

\* C2: at every redraw that hands a non-empty list to the display, the
\* selected index is an index of that list.  (Violated: see C4; previous()
\* on an empty list wraps the cursor to usize::MAX in a build without
\* overflow checks, and a later scan finds an entry.)
C2_CursorInRange ==
  (drawn.valid /\ drawn.items # <<>>) =>
    drawn.selected \in 0..(Len(drawn.items) - 1)

\* C3: over a non-empty list of length n and from an index i of it, next()
\* (j, Down in Normal mode) yields i+1 when i < n-1 and 0 when i = n-1;
\* previous() (k, Up) yields i-1 when i > 0 and n-1 when i = 0.
C3_CircularNavigation ==
  [][ (/\ pc = "dispatch"
       /\ input_mode = "Normal"
       /\ app_list # <<>>
       /\ index < Len(app_list))
      => /\ ev \in NextKeys =>
              /\ pc' = "scan"
              /\ index' = IF index < Len(app_list) - 1 THEN index + 1 ELSE 0
         /\ ev \in PreviousKeys =>
              /\ pc' = "scan"
              /\ index' = IF index > 0 THEN index - 1 ELSE Len(app_list) - 1
    ]_vars

\* C3 witness: previous() from index 0 of a three-entry list has given 2.
C3_Witness ==
  /\ pc = "scan"
  /\ Len(app_list) = 3
  /\ drawn.selected = 0
  /\ index = 2

\* C4: on an empty list next() and previous(), reached by j/Down and k/Up
\* in Normal mode, do not panic and leave the cursor unchanged.  (Violated:
\* next() takes a remainder by zero, previous() subtracts 1 from 0.)
C4_EmptyListNavigationIsNoOp ==
  [][ (/\ pc = "dispatch"
       /\ input_mode = "Normal"
       /\ app_list = <<>>
       /\ ev \in NextKeys \cup PreviousKeys)
      => /\ exit' # "panic"
         /\ index' = index
    ]_vars

\* C5: the input mode starts as Normal; while the loop runs its only
\* changes are Normal -> Editing on 'i' and Editing -> Normal on Esc, and
\* every other event (Enter while Editing included) leaves it unchanged.
C5_ModeTransitions ==
  /\ input_mode = "Normal"
  /\ [][ (InLoop(pc) /\ InLoop(pc'))
         => input_mode' =
              IF pc = "dispatch" /\ input_mode = "Normal" /\ ev = Char("i")
                THEN "Editing"
              ELSE IF pc = "dispatch" /\ input_mode = "Editing"
                        /\ ev = Key("Esc")
                THEN "Normal"
              ELSE input_mode
       ]_vars
  /\ [][ (pc = "dispatch" /\ ev \in {Char("i"), Key("Esc"), Key("Enter")})
         => InLoop(pc')
       ]_vars

\* C5 witness: an event dispatched in Editing mode, as the last screen
\* shows it, has brought the mode back to Normal.
C5_Witness ==
  /\ pc = "scan"
  /\ drawn.valid
  /\ drawn.mode = "Editing"
  /\ input_mode = "Normal"

\* C6: 'q' in Normal mode makes run_app return Ok; after run_app has
\* returned nothing is drawn and no event is read; no event dispatched in
\* Editing mode ends the loop; run_app returns Ok from Normal mode only.
C6_QuitOnlyFromNormal ==
  /\ [][ (pc = "dispatch" /\ input_mode = "Normal" /\ ev = Char("q"))
         => (pc' = "disable_raw" /\ res' = "Ok") ]_vars
  /\ [][ (pc = "dispatch" /\ input_mode = "Editing")
         => (pc' = "scan" /\ res' = "none" /\ exit' = "running") ]_vars
  /\ [][ (res # "Ok" /\ res' = "Ok")
         => (pc = "dispatch" /\ input_mode = "Normal" /\ ev = Char("q"))
       ]_vars
  /\ [][ res # "none"
         => (~InLoop(pc') /\ drawn' = drawn /\ ev' = NoEvent /\ res' = res)
       ]_vars

\* C6 witness: the process has ended after a normal quit, with a 'q' typed
\* as text on the last screen drawn.
C6_Witness ==
  /\ pc = "exited"
  /\ res = "Ok"
  /\ drawn.input = <<"q">>

\* The first path of a listing whose file is a shortcut file named name.
FirstNamed(files, name) ==
  LET I == { i \in 1..Len(files) :
               /\ FileAttr[files[i]].desktop
               /\ FileAttr[files[i]].has_name
               /\ FileAttr[files[i]].name = name }
  IN  files[CHOOSE i \in I : \A j \in I : i <= j]

\* C7: the catalog never holds two entries of the same name; a scan keeps
\* the entries it finds in place and, for a name not yet in the catalog,
\* adds the first file of the scan order that carries it.
C7_FirstSeenWins ==
  /\ [](\A i, j \in 1..Len(app_list) :
          app_list[i].name = app_list[j].name => i = j)
  /\ [][ (pc = "scan" /\ pc' = "read")
         => /\ Len(app_list') >= Len(app_list)
            /\ SubSeq(app_list', 1, Len(app_list)) = app_list
            /\ \A k \in (Len(app_list) + 1)..Len(app_list') :
                 app_list'[k].src = FirstNamed(dir'.files, app_list'[k].name)
       ]_vars

\* C7 witness: a scan after a change of the directory has met two files of
\* the same name, and the catalog holds the one entry made of the file an
\* earlier scan met first.
C7_Witness ==
  /\ pc = "read"
  /\ dir.files = <<"f1", "f2">>
  /\ app_list = << [name |-> <<"K", "i">>, src |-> "f2"] >>

\* Case-insensitive comparison: the lowercase of a string.
Lower(str) ==
  [i \in 1..Len(str) |-> IF str[i] = "K" THEN "k" ELSE str[i]]

\* needle occurs in hay.
Contains(hay, needle) ==
  \E i \in 0..(Len(hay) - Len(needle)) :
    SubSeq(hay, i + 1, i + Len(needle)) = needle

\* The names that contain the search text, case-insensitively, in order.
FilterView(names, text) ==
  SelectSeq(names, LAMBDA n : Contains(Lower(n), Lower(text)))

\* C8: the list shown at a redraw is the catalog filtered by the search
\* text (the input box, or the committed search string).  (Violated: ui
\* shows the whole catalog whatever the text.)
C8_ShownListIsFiltered ==
  pc = "read" =>
    \/ drawn.items = FilterView(Names(app_list), input)
    \/ drawn.items = FilterView(Names(app_list), search_string)

\* C9: no catalog entry comes from a file without Exec or with
\* NoDisplay = true.  (Violated: the scan reads neither attribute.)
C9_NoEntryWithoutExecOrHidden ==
  \A i \in 1..Len(app_list) :
    /\ FileAttr[app_list[i].src].has_exec
    /\ ~FileAttr[app_list[i].src].nodisplay

\* A shortcut file the scan can make an entry of.
WellFormed(f) ==
  /\ FileAttr[f].readable
  /\ FileAttr[f].desktop
  /\ FileAttr[f].parses
  /\ FileAttr[f].has_name

\* A shortcut file that fails to parse or has no Name.
Malformed(f) ==
  /\ FileAttr[f].readable
  /\ FileAttr[f].desktop
  /\ ~(FileAttr[f].parses /\ FileAttr[f].has_name)

\* C10: a scan of a listable directory with readable entries, one of them
\* a malformed shortcut file, goes on to the draw and, unless the draw
\* itself fails, to the read of an event with the names of all well-formed
\* files in the catalog.  (Violated: a file that does not parse makes
\* run_app return the error, a file without Name panics.)
C10_BadFileIsSkipped ==
  [][ (/\ pc = "scan"
       /\ dir'.listable
       /\ \A i \in 1..Len(dir'.files) : FileAttr[dir'.files[i]].readable
       /\ \E i \in 1..Len(dir'.files) : Malformed(dir'.files[i]))
      => \/ res' = "DrawError"
         \/ /\ pc' = "read"
            /\ \A i \in 1..Len(dir'.files) :
                 WellFormed(dir'.files[i]) =>
                   \E k \in 1..Len(app_list') :
                     app_list'[k].name = FileAttr[dir'.files[i]].name
    ]_vars


\* C11: when the shortcut directory cannot be listed, the run ends with the
\* failure shown to the user, and by the time the failure is shown raw mode
\* is already disabled and the alternate screen already left.
C11_RestoredBeforeListingFailureIsReported ==
  [][ (pc = "scan" /\ ~dir'.listable)
        => /\ ~InLoop(pc')
           /\ (reported' # reported => ~raw_mode /\ ~alt_screen)
           /\ (pc' = "exited" => reported' # "nothing") ]_vars

\* C12: select (Enter while browsing) on the highlighted entry ends the
\* interactive loop and hands over to the restoring of the terminal, which
\* comes before the launch of the entry.
C12_SelectEndsLoopAndRestores ==
  [][ (/\ pc = "dispatch"
       /\ input_mode = "Normal"
       /\ ev = Key("Enter")
       /\ index < Len(app_list))
        => pc' = "disable_raw" /\ res' = "Ok" ]_vars


\* C13: every event that does not end the loop is followed by exactly one
\* redraw before the next event is read: the dispatch draws nothing and goes
\* to the top of the loop, the top of the loop draws once and goes to the
\* read, the read draws nothing; and when an event is read the frame on the
\* screen is the catalog, cursor, mode and input text as they stand.
C13_OneRedrawOfLatestState ==
  /\ [](pc = "read" =>
          drawn = [valid |-> TRUE, items |-> Names(app_list),
                   selected |-> index, mode |-> input_mode,
                   input |-> input])
  /\ [][ (pc = "dispatch" /\ InLoop(pc'))
           => pc' = "scan" /\ drawn' = drawn ]_vars
  /\ [][ (pc = "scan" /\ InLoop(pc')) => pc' = "read" ]_vars
  /\ [][ (pc = "read" /\ InLoop(pc'))
           => pc' = "dispatch" /\ drawn' = drawn ]_vars

\* C13: typed text, Editing mode and a moved cursor, all on the screen when
\* the next event is awaited.
C13_Witness ==
  /\ pc = "read"
  /\ input_mode = "Editing"
  /\ input = << "k" >>
  /\ index = 1
  /\ drawn.selected = 1
  /\ drawn.input = << "k" >>


\* C14: on a list of n >= 1 entries with the cursor on any index i < n, n
\* calls of next() bring the cursor back to i, and so do n calls of
\* previous().
C14_FullCycleReturns ==
  (nav.op \in {"next", "previous"} /\ nav.calls = nav.len)
    => nav.index = nav.start

\* C14: three calls of previous() on three entries from the first one: the
\* cursor has wrapped to the last entry and come back.
C14_Witness ==
  /\ nav.op = "previous"
  /\ nav.len = 3
  /\ nav.start = 0
  /\ nav.calls = 3
  /\ nav.index = 0


Replay(text, e) ==
  IF e.kind = "Key" /\ e.code = "Char" THEN text \o << e.ch >>
  ELSE IF e = Key("Backspace") /\ text # <<>>
    THEN [i \in 1..(Len(text) - 1) |-> text[i]]
  ELSE text

C17_CatalogImmutableAfterStartup ==
  [][ (drawn.valid /\ InLoop(pc) /\ InLoop(pc'))
        => app_list' = app_list ]_vars


\* C18: next and previous wrap over the length of the FilterView (the
\* entries matching the search text: the input box, or the committed
\* search string), not over the length of the catalog, and at a redraw the
\* cursor is inside the FilterView when there is one.  (Violated: both
\* methods take app_list.len(), and nothing moves the cursor when the text
\* changes.)
C18_CursorWrapsOverFilterView ==
  /\ [](\E text \in {input, search_string} :
          LET view == FilterView(Names(app_list), text)
          IN  (pc = "read" /\ index < Len(app_list) /\ view # <<>>)
                => index < Len(view))
  /\ [][ \E text \in {input, search_string} :
           LET view == FilterView(Names(app_list), text)
           IN  (/\ pc = "dispatch"
                /\ input_mode = "Normal"
                /\ index < Len(view)
                /\ InLoop(pc'))
                 => /\ ev \in NextKeys
                         => index' = (index + 1) % Len(view)
                    /\ ev \in PreviousKeys
                         => index' = (index + Len(view) - 1) % Len(view)
       ]_vars


\* The keys with an arm in the match of the mode (lines 113-133 for Normal,
\* lines 134-149 for Editing, where every character key has one).
Bound(mode, e) ==
  /\ e.kind = "Key"
  /\ IF mode = "Normal"
       THEN e \in {Char("i"), Char("q")} \cup NextKeys \cup PreviousKeys
       ELSE e.code = "Char" \/ e \in {Key("Enter"), Key("Backspace"),
                                      Key("Esc")}

\* C19: an event changes only the state its mode binds it to.  An event
\* that is no key, and a key without an arm in the current mode, leave the
\* mode, the input text, the committed query and the cursor alone and the
\* loop goes on; in Normal mode no key changes the input text or the
\* committed query; in Editing mode no key changes the cursor, j, k and q
\* being appended to the text.
C19_EventsChangeOnlyTheirState ==
  /\ [][ (pc = "dispatch" /\ ~Bound(input_mode, ev))
           => /\ pc' = "scan"
              /\ UNCHANGED << input_mode, input, search_string, index >>
       ]_vars
  /\ [][ (pc = "dispatch" /\ input_mode = "Normal" /\ InLoop(pc'))
           => UNCHANGED << input, search_string >> ]_vars
  /\ [][ (pc = "dispatch" /\ input_mode = "Editing")
           => /\ pc' = "scan"
              /\ index' = index
              /\ (ev.kind = "Key" /\ ev.code = "Char"
                    => input' = input \o << ev.ch >>) ]_vars

\* C19: k typed in Editing mode with the cursor on the second entry: the
\* text has got the k and the cursor is where the screen shows it.
C19_Witness ==
  /\ pc = "scan"
  /\ drawn.valid
  /\ drawn.mode = "Editing"
  /\ drawn.input = <<>>
  /\ drawn.selected = 1
  /\ input_mode = "Editing"
  /\ input = << "k" >>
  /\ index = 1


\* C20: the rescan of an iteration only appends to the catalog: the old
\* catalog is the head of the new one, entry for entry, also when the file
\* of an entry is gone; a rescan that finds the directory as the scan
\* before found it leaves the catalog as it is; no other step of the loop
\* touches the catalog; so its length never goes down and a cursor that was
\* a valid index is one afterwards.
C20_RescanOnlyAppends ==
  /\ [][ (pc = "scan" /\ pc' = "read")
           => /\ Len(app_list') >= Len(app_list)
              /\ SubSeq(app_list', 1, Len(app_list)) = app_list
              /\ (drawn.valid /\ dir' = dir) => app_list' = app_list
              /\ index < Len(app_list) => index' < Len(app_list')
       ]_vars
  /\ [][ (pc \in {"read", "dispatch"} /\ InLoop(pc'))
           => app_list' = app_list ]_vars

\* C20: the directory has lost its last file and the entry read from it is
\* still in the catalog on the screen.
C20_Witness ==
  /\ pc = "read"
  /\ dir.listable
  /\ dir.files = <<>>
  /\ app_list # <<>>
  /\ drawn.items = Names(app_list)

====
